---- MODULE Spec2Model ----
(***************************************************************************)
(* BasePostmanTool (src/tools/api/base.ts): the constructor that provisions *)
(* or reuses an HTTP client and registers its request and response hooks,   *)
(* the response error handler that turns transport failures into McpError,  *)
(* and the tool / resource discovery methods.                               *)
(*                                                                         *)
(* A JavaScript value that may be null or undefined is a sequence of length *)
(* 0 (absent) or 1 (present): None and Some(v).  `a || b` and `if (a)` go   *)
(* through Truthy, which is false for an absent value and for the empty     *)
(* string.                                                                  *)
(*                                                                         *)
(* A client keeps its hooks in registration order.  A request snapshots the *)
(* hooks when it is issued, runs the request hooks in reverse registration  *)
(* order and the response hooks in registration order (the HTTP library's   *)
(* chain), each response hook being a (onFulfilled, onRejected) pair.       *)
(***************************************************************************)
EXTENDS Integers, Sequences, FiniteSets, TLC

VARIABLES clients, tools, inflight, last

vars == <<clients, tools, inflight, last>>

(* ------------------------------ bounds --------------------------------- *)

MaxTools == 2

MaxDefs == 2

(* ------------------------- optional values ----------------------------- *)

None == <<>>

Some(v) == <<v>>

Truthy(opt) == opt # None /\ opt[1] # ""

OrElse(opt, fallback) == IF Truthy(opt) THEN opt[1] ELSE fallback

(* --------------------------- input domains ----------------------------- *)

ApiKeys == {None, Some(""), Some("PMAK-1")}

BaseURLs == {None, Some("https://mock.test")}

AcceptHeaders == {None, Some(""), Some("application/vnd.api.v10+json"), Some("text/plain")}

OptionSets == [baseURL : BaseURLs, acceptHeader : AcceptHeaders]

IssuedAccepts == {None, Some("application/xml")}

RequestUrl == "/workspaces"

Statuses == {400, 401, 403, 404, 422, 429, 500}

Bodies ==
  { None,
    Some([error |-> None]),
    Some([error |-> Some([message |-> None])]),
    Some([error |-> Some([message |-> Some("")])]),
    Some([error |-> Some([message |-> Some("Invalid workspace id")])]) }

(* ------------------------------ errors --------------------------------- *)

InvalidRequest == -32600

InternalError == -32603

McpError(code, message) ==
  [ name     |-> "McpError",
    code     |-> code,
    message  |-> "MCP error " \o ToString(code) \o ": " \o message,
    response |-> None,
    request  |-> FALSE ]

(* The transport's error; its code is only logged.                          *)
TransportError(message, response, request) ==
  [ name     |-> "AxiosError",
    code     |-> 0,
    message  |-> message,
    response |-> response,
    request  |-> request ]

TransportFailures ==
  { TransportError("Request failed", Some([status |-> s, data |-> d]), r) :
      s \in Statuses, d \in Bodies, r \in BOOLEAN }
  \cup { TransportError(m, None, TRUE) : m \in {"timeout of 30000ms exceeded"} }
  \cup { TransportError(m, None, FALSE) : m \in {"Invalid URL", ""} }

TransportResponses == { [status |-> 200, data |-> d] : d \in {None, Some([error |-> None])} }

Fulfilled(v) == [state |-> "fulfilled", value |-> v]

Rejected(e) == [state |-> "rejected", value |-> e]

TransportOutcomes ==
  { Fulfilled(r) : r \in TransportResponses } \cup { Rejected(e) : e \in TransportFailures }

(* --------------------------- the constructor --------------------------- *)

DefaultBaseURL == "https://api.getpostman.com"

Timeout == 30000

ApiKeyRequired == "API key is required when not providing an existing client"

ResolveBaseURL(options) == OrElse(options.baseURL, DefaultBaseURL)

ExternalClient ==
  [ baseURL            |-> "https://proxy.corp.test",
    headers            |-> [XApiKey |-> Some("PMAK-0"), ContentType |-> None,
                            Accept |-> Some("application/json, text/plain, */*")],
    timeout            |-> 0,
    rejectUnauthorized |-> TRUE,
    requestHandlers    |-> <<>>,
    responseHandlers   |-> <<>> ]

AxiosCreate(baseURL, apiKey) ==
  [ baseURL            |-> baseURL,
    headers            |-> [XApiKey |-> Some(apiKey), ContentType |-> Some("application/json"),
                            Accept |-> Some("application/json, text/plain, */*")],
    timeout            |-> Timeout,
    rejectUnauthorized |-> FALSE,
    requestHandlers    |-> <<>>,
    responseHandlers   |-> <<>> ]

(* Mutant: the options' base URL is applied to the client that is reused.   *)
UseExistingClient_Rebased(client, baseURL, apiKey) == [client EXCEPT !.baseURL = baseURL]

UseExistingClient(client, baseURL, apiKey) == client

LoggingHook == [kind |-> "log", acceptHeader |-> None]

AcceptHook(options) == [kind |-> "accept", acceptHeader |-> options.acceptHeader]

ErrorHook == [onFulfilled |-> "identity", onRejected |-> "translate"]

RequestHooksOf(options) ==
  IF Truthy(options.acceptHeader) THEN <<LoggingHook, AcceptHook(options)>> ELSE <<LoggingHook>>

RegisterHooks(client, options) ==
  [client EXCEPT !.requestHandlers  = @ \o RequestHooksOf(options),
                 !.responseHandlers = Append(@, ErrorHook)]

(* The instance: its client field, and the acceptHeader its Accept hook     *)
(* closes over (None when the constructor registered no Accept hook).       *)
Instance(client, options) ==
  [ client       |-> client,
    acceptHeader |-> IF Truthy(options.acceptHeader) THEN options.acceptHeader ELSE None ]

(* Mutant: only a null key counts as missing, an empty one is accepted.     *)
MissingApiKey_NullOnly(apiKey, existingClient) == existingClient = 0 /\ apiKey = None

MissingApiKey(apiKey, existingClient) == existingClient = 0 /\ ~Truthy(apiKey)

Constructor(cs, apiKey, options, existingClient) ==
  IF existingClient # 0
  THEN [ threw   |-> FALSE, error |-> "", client |-> existingClient,
         clients |-> [cs EXCEPT ![existingClient] =
                        RegisterHooks(UseExistingClient(@, ResolveBaseURL(options), apiKey), options)] ]
  ELSE IF MissingApiKey(apiKey, existingClient)
  THEN [ threw |-> TRUE, error |-> ApiKeyRequired, client |-> 0, clients |-> cs ]
  ELSE [ threw   |-> FALSE, error |-> "", client |-> Len(cs) + 1,
         clients |-> Append(cs, RegisterHooks(AxiosCreate(ResolveBaseURL(options), apiKey[1]), options)) ]

(* ---------------------------- request hooks ---------------------------- *)

RequestConfig(client, issuedAccept) ==
  [ url     |-> RequestUrl,
    baseURL |-> client.baseURL,
    headers |-> [client.headers EXCEPT !.Accept = IF issuedAccept # None THEN issuedAccept ELSE @] ]

ApplyRequestHook(hook, st) ==
  IF hook.kind = "log"
  THEN [st EXCEPT !.logged = Append(@, st.config.url)]
  ELSE [st EXCEPT !.config.headers.Accept = hook.acceptHeader]

RECURSIVE RunRequestHooks(_, _, _)
RunRequestHooks(handlers, i, st) ==
  IF i = 0 THEN st ELSE RunRequestHooks(handlers, i - 1, ApplyRequestHook(handlers[i], st))

RECURSIVE RunInRegistrationOrder(_, _, _)
RunInRegistrationOrder(handlers, i, st) ==
  IF i > Len(handlers) THEN st
  ELSE RunInRegistrationOrder(handlers, i + 1, ApplyRequestHook(handlers[i], st))

(* Mutant: the request hooks run in registration order, the last one last.  *)
Dispatch_RegistrationOrder(client, issuedAccept) ==
  RunInRegistrationOrder(client.requestHandlers, 1,
                         [config |-> RequestConfig(client, issuedAccept), logged |-> <<>>])

Dispatch(client, issuedAccept) ==
  RunRequestHooks(client.requestHandlers, Len(client.requestHandlers),
                  [config |-> RequestConfig(client, issuedAccept), logged |-> <<>>])

(* ---------------------------- response hooks --------------------------- *)

(* Mutant: the message is read from the body itself (data?.message), which  *)
(* no body of the API carries.                                              *)
NestedErrorMessage_TopLevel(response) == None

NestedErrorMessage(response) ==
  IF response.data = None THEN None
  ELSE IF response.data[1].error = None THEN None
  ELSE response.data[1].error[1].message

(* Mutant: the switch has no case 422, which falls to the default.          *)
StatusError_No422(response) ==
  CASE response.status = 400 ->
         McpError(InvalidRequest, OrElse(NestedErrorMessage(response), "Invalid request parameters"))
    [] response.status = 401 ->
         McpError(InvalidRequest, "Unauthorized: Invalid or missing API key")
    [] response.status = 403 ->
         McpError(InvalidRequest, "Forbidden: Insufficient permissions or feature unavailable")
    [] response.status = 404 ->
         McpError(InvalidRequest, "Resource not found")
    [] response.status = 429 ->
         McpError(InvalidRequest, "Rate limit exceeded")
    [] OTHER ->
         McpError(InternalError, OrElse(NestedErrorMessage(response), "Internal server error"))

StatusError(response) ==
  CASE response.status = 400 ->
         McpError(InvalidRequest, OrElse(NestedErrorMessage(response), "Invalid request parameters"))
    [] response.status = 401 ->
         McpError(InvalidRequest, "Unauthorized: Invalid or missing API key")
    [] response.status = 403 ->
         McpError(InvalidRequest, "Forbidden: Insufficient permissions or feature unavailable")
    [] response.status = 404 ->
         McpError(InvalidRequest, "Resource not found")
    [] response.status = 422 ->
         McpError(InvalidRequest, OrElse(NestedErrorMessage(response), "Invalid request parameters"))
    [] response.status = 429 ->
         McpError(InvalidRequest, "Rate limit exceeded")
    [] OTHER ->
         McpError(InternalError, OrElse(NestedErrorMessage(response), "Internal server error"))

(* Mutant: the two branches without a response are tested the wrong way     *)
(* round.                                                                    *)
NoResponseError_Swapped(error) ==
  IF ~error.request
  THEN McpError(InternalError, "No response received from Postman API")
  ELSE McpError(InternalError, "Error making request: " \o error.message)

NoResponseError(error) ==
  IF error.request
  THEN McpError(InternalError, "No response received from Postman API")
  ELSE McpError(InternalError, "Error making request: " \o error.message)

(* Mutant: a failure without a response is rethrown as it came.             *)
OnRejected_RethrowsRaw(error) ==
  IF error.response # None THEN StatusError(error.response[1]) ELSE error

OnRejected(error) ==
  IF error.response # None THEN StatusError(error.response[1]) ELSE NoResponseError(error)

OnFulfilled(response) == response

ApplyResponseHook(settled) ==
  IF settled.state = "fulfilled"
  THEN Fulfilled(OnFulfilled(settled.value))
  ELSE Rejected(OnRejected(settled.value))

RECURSIVE RunResponseHooks(_, _, _)
RunResponseHooks(handlers, i, trace) ==
  IF i > Len(handlers) THEN trace
  ELSE RunResponseHooks(handlers, i + 1, Append(trace, ApplyResponseHook(trace[Len(trace)])))

Settle(handlers, outcome) == RunResponseHooks(handlers, 1, <<outcome>>)

(* console.error('Axios error:', error.code, error.message): one line for  *)
(* every failure a response hook receives.                                  *)
RECURSIVE ErrorLog(_, _)
ErrorLog(trace, i) ==
  IF i >= Len(trace) THEN <<>>
  ELSE (IF trace[i].state = "rejected"
        THEN <<[code |-> trace[i].value.code, message |-> trace[i].value.message]>>
        ELSE <<>>) \o ErrorLog(trace, i + 1)

(* ------------------------ discovery methods ---------------------------- *)

(* What a derived class's overrides do is an input of each call: whether    *)
(* the method is overridden, and what the override returns or throws.       *)

ToolNames == {"list_workspaces", "get_workspace"}

ResourceUris == {"postman://workspaces", "postman://collections/1"}

RECURSIVE SeqsUpTo(_, _)
SeqsUpTo(S, n) ==
  IF n = 0 THEN {<<>>}
  ELSE LET shorter == SeqsUpTo(S, n - 1) IN
         shorter \cup { Append(q, x) : q \in shorter, x \in S }

DefinitionLists == SeqsUpTo({ [name |-> n] : n \in ToolNames }, MaxDefs)

Return(v) == [threw |-> FALSE, value |-> v]

Throw(e) == [threw |-> TRUE, value |-> e]

PlainError(message) ==
  [ name |-> "Error", code |-> 0, message |-> message, response |-> None, request |-> FALSE ]

NotImplemented == "getToolDefinitions() must be implemented by derived class"

DefinitionSources ==
  {[overridden |-> FALSE, returns |-> <<>>]}
  \cup { [overridden |-> TRUE, returns |-> d] : d \in DefinitionLists }

GetToolDefinitions(class) ==
  IF class.overridden THEN Return(class.returns) ELSE Throw(PlainError(NotImplemented))

EmptyMapping == [n \in {} |-> 0]

Assign(mappings, key, value) ==
  [n \in DOMAIN mappings \cup {key} |-> IF n = key THEN value ELSE mappings[n]]

RECURSIVE ForEachTool(_, _, _, _)
ForEachTool(toolDefinitions, i, mappings, self) ==
  IF i > Len(toolDefinitions) THEN mappings
  ELSE ForEachTool(toolDefinitions, i + 1, Assign(mappings, toolDefinitions[i].name, self), self)

(* Mutant: a failing getToolDefinitions() is swallowed and maps nothing.     *)
GetToolMappings_EmptyOnThrow(self, class) ==
  LET toolDefinitions == GetToolDefinitions(class) IN
    IF toolDefinitions.threw THEN Return(EmptyMapping)
    ELSE Return(ForEachTool(toolDefinitions.value, 1, EmptyMapping, self))

GetToolMappings(self, class) ==
  LET toolDefinitions == GetToolDefinitions(class) IN
    IF toolDefinitions.threw THEN toolDefinitions
    ELSE Return(ForEachTool(toolDefinitions.value, 1, EmptyMapping, self))

ListToolResources == Return(<<>>)

DetailSources ==
  {[overridden |-> FALSE, outcome |-> "default"]}
  \cup { [overridden |-> TRUE, outcome |-> o] :
           o \in {"resolves", "rejectsMcpError", "rejectsError", "throwsTypeError"} }

GetToolResourceDetails(class, resourceUri) ==
  IF ~class.overridden
  THEN Throw(McpError(InvalidRequest, "Resource " \o resourceUri \o " cannot be handled by this tool"))
  ELSE CASE class.outcome = "resolves" -> Return([uri |-> resourceUri])
         [] class.outcome = "rejectsMcpError" -> Throw(McpError(InternalError, "No response received from Postman API"))
         [] class.outcome = "rejectsError" -> Throw(PlainError("lookup failed"))
         [] OTHER -> Throw(PlainError("Cannot read properties of undefined"))

(* Mutant: only an McpError is caught, any other error propagates.          *)
CanHandleResource_McpOnly(class, resourceUri) ==
  LET details == GetToolResourceDetails(class, resourceUri) IN
    IF ~details.threw THEN Return(TRUE)
    ELSE IF details.value.name = "McpError" THEN Return(FALSE)
    ELSE details

CanHandleResource(class, resourceUri) ==
  IF GetToolResourceDetails(class, resourceUri).threw THEN Return(FALSE) ELSE Return(TRUE)

(* ------------------------------ actions -------------------------------- *)

Init ==
  /\ clients = <<ExternalClient>>
  /\ tools = <<>>
  /\ inflight = <<>>
  /\ last = [op |-> "init"]

Construct(apiKey, options, existingClient) ==
  /\ Len(tools) < MaxTools
  /\ LET r == Constructor(clients, apiKey, options, existingClient) IN
       /\ clients' = r.clients
       /\ tools' = IF r.threw THEN tools ELSE Append(tools, Instance(r.client, options))
       /\ last' = [op |-> "construct", apiKey |-> apiKey, existingClient |-> existingClient,
                   threw |-> r.threw, error |-> r.error]
  /\ UNCHANGED inflight

(* A request takes its hooks when it is issued, so requests in flight do    *)
(* not affect one another: they are issued one at a time.                   *)
Send(c, issuedAccept) ==
  /\ inflight = <<>>
  /\ LET st == Dispatch(clients[c], issuedAccept) IN
       /\ inflight' = <<[client |-> c, config |-> st.config,
                         responseHandlers |-> clients[c].responseHandlers]>>
       /\ last' = [op |-> "send", client |-> c, issuedAccept |-> issuedAccept,
                   config |-> st.config, logged |-> st.logged]
  /\ UNCHANGED <<clients, tools>>

Complete(outcome) ==
  /\ inflight # <<>>
  /\ LET trace == Settle(inflight[1].responseHandlers, outcome) IN
       last' = [op |-> "complete", outcome |-> outcome, trace |-> trace,
                logged |-> ErrorLog(trace, 1), result |-> trace[Len(trace)]]
  /\ inflight' = <<>>
  /\ UNCHANGED <<clients, tools>>

CallGetToolMappings(t, class) ==
  /\ last' = [op |-> "getToolMappings", tool |-> t, class |-> class,
              result |-> GetToolMappings(t, class)]
  /\ UNCHANGED <<clients, tools, inflight>>

CallListToolResources(t) ==
  /\ last' = [op |-> "listToolResources", tool |-> t, result |-> ListToolResources]
  /\ UNCHANGED <<clients, tools, inflight>>

CallCanHandleResource(t, class, resourceUri) ==
  /\ last' = [op |-> "canHandleResource", tool |-> t, class |-> class, uri |-> resourceUri,
              details |-> GetToolResourceDetails(class, resourceUri),
              result |-> CanHandleResource(class, resourceUri)]
  /\ UNCHANGED <<clients, tools, inflight>>

Next ==
  \/ \E apiKey \in ApiKeys, options \in OptionSets, existingClient \in 0..Len(clients) :
       Construct(apiKey, options, existingClient)
  \/ \E c \in DOMAIN clients, issuedAccept \in IssuedAccepts : Send(c, issuedAccept)
  \/ \E outcome \in TransportOutcomes : Complete(outcome)

Spec == Init /\ [][Next]_vars

(* The discovery methods read and write nothing of the clients: their       *)
(* behaviours are those of the instances the constructor builds, apart from  *)
(* the requests.                                                             *)
NextDiscovery ==
  \/ \E apiKey \in ApiKeys, options \in OptionSets, existingClient \in 0..Len(clients) :
       Construct(apiKey, options, existingClient)
  \/ \E t \in DOMAIN tools, class \in DefinitionSources : CallGetToolMappings(t, class)
  \/ \E t \in DOMAIN tools : CallListToolResources(t)
  \/ \E t \in DOMAIN tools, class \in DetailSources, resourceUri \in ResourceUris :
       CallCanHandleResource(t, class, resourceUri)

SpecDiscovery == Init /\ [][NextDiscovery]_vars

(* ------------------------------ claims --------------------------------- *)

ClientErrorStatuses == {400, 401, 403, 404, 422, 429}

(* The steps of the last completed request's response chain: step i is one  *)
(* response hook, taking trace[i] and leaving trace[i + 1].                 *)
HookSteps == IF last.op = "complete" THEN 1..(Len(last.trace) - 1) ELSE {}

Failed(settled) == settled.state = "rejected"

HasResponse(settled) == Failed(settled) /\ settled.value.response # None

(* The body's nested error message counts as present when the body, its     *)
(* error object and the message exist and the message is not empty.         *)
BodyMessagePresent(response) ==
  /\ response.data # None
  /\ response.data[1].error # None
  /\ response.data[1].error[1].message # None
  /\ response.data[1].error[1].message[1] # ""

BodyMessageOr(response, fallback) ==
  IF BodyMessagePresent(response) THEN response.data[1].error[1].message[1] ELSE fallback

ClaimedClientMessage(response) ==
  CASE response.status \in {400, 422} -> BodyMessageOr(response, "Invalid request parameters")
    [] response.status = 401 -> "Unauthorized: Invalid or missing API key"
    [] response.status = 403 -> "Forbidden: Insufficient permissions or feature unavailable"
    [] response.status = 404 -> "Resource not found"
    [] response.status = 429 -> "Rate limit exceeded"

(* C1: a response hook given a failure that carries a response with status  *)
(* 400, 401, 403, 404, 422 or 429 raises an invalid-request error: with the  *)
(* body's nested error message, else 'Invalid request parameters', for 400   *)
(* and 422, and with the fixed message of the status for 401, 403, 404 and   *)
(* 429, whatever the body says.                                              *)
C1_ClientStatusesRaiseInvalidRequest ==
  \A i \in HookSteps :
    (HasResponse(last.trace[i]) /\ last.trace[i].value.response[1].status \in ClientErrorStatuses)
      => last.trace[i + 1] =
           Rejected(McpError(InvalidRequest, ClaimedClientMessage(last.trace[i].value.response[1])))

C1_Witness ==
  /\ last.op = "complete"
  /\ Len(last.trace) = 2
  /\ HasResponse(last.outcome)
  /\ last.outcome.value.response[1].status = 404
  /\ BodyMessagePresent(last.outcome.value.response[1])
  /\ last.result = Rejected(McpError(InvalidRequest, "Resource not found"))

(* C2: a response hook given a failure that carries a response with any      *)
(* other status raises an internal error with the body's nested error        *)
(* message, else 'Internal server error', whether or not the failure also    *)
(* carries a request.                                                        *)
C2_OtherStatusesRaiseInternalError ==
  \A i \in HookSteps :
    (HasResponse(last.trace[i]) /\ last.trace[i].value.response[1].status \notin ClientErrorStatuses)
      => last.trace[i + 1] =
           Rejected(McpError(InternalError,
                             BodyMessageOr(last.trace[i].value.response[1], "Internal server error")))

C2_Witness ==
  /\ last.op = "complete"
  /\ Len(last.trace) = 2
  /\ HasResponse(last.outcome)
  /\ last.outcome.value.response[1].status = 500
  /\ ~last.outcome.value.request
  /\ BodyMessagePresent(last.outcome.value.response[1])
  /\ last.result = Rejected(McpError(InternalError, "Invalid workspace id"))

(* C3: a response hook given a failure that carries no response raises an    *)
(* internal error: 'No response received from Postman API' when a request    *)
(* was sent, and 'Error making request: ' followed by the failure's own      *)
(* message when there is neither a request nor a response.                   *)
C3_NoResponseRaisesInternalError ==
  \A i \in HookSteps :
    (Failed(last.trace[i]) /\ last.trace[i].value.response = None)
      => last.trace[i + 1] =
           Rejected(McpError(InternalError,
                             IF last.trace[i].value.request
                             THEN "No response received from Postman API"
                             ELSE "Error making request: " \o last.trace[i].value.message))

C3_Witness ==
  /\ last.op = "complete"
  /\ Len(last.trace) = 2
  /\ last.outcome = Rejected(TransportError("Invalid URL", None, FALSE))
  /\ last.result.value.message = "MCP error -32603: Error making request: Invalid URL"

(* C4: the constructor throws 'API key is required when not providing an     *)
(* existing client' exactly when no existing client is given and the API key *)
(* is null or empty; with an existing client it succeeds whatever the key;   *)
(* a construction that throws registers no hook and creates no client.       *)
C4_MissingKeyFailsBeforeAnyHook ==
  [][ last'.op = "construct" =>
        /\ last'.threw <=> (last'.existingClient = 0 /\ last'.apiKey \in {None, Some("")})
        /\ last'.threw => (last'.error = "API key is required when not providing an existing client"
                           /\ clients' = clients /\ tools' = tools)
        /\ ~last'.threw => Len(tools') = Len(tools) + 1 ]_vars

C4_Witness ==
  /\ last.op = "construct"
  /\ last.existingClient = 0
  /\ last.apiKey = Some("")
  /\ last.threw

(* C5: a failing response with status S issued through a client that several *)
(* instances share reaches the caller translated once: the error the status  *)
(* mapping gives for S, never a translation of an already translated error.  *)
C5_SharedClientTranslatesOnce ==
  (last.op = "complete" /\ Len(last.trace) >= 2 /\ HasResponse(last.outcome))
    => last.result = Rejected(StatusError(last.outcome.value.response[1]))

(* C6: through the response hooks a successful response reaches the caller   *)
(* unchanged, and every failure is raised as an McpError of kind             *)
(* invalid-request or internal-error, never returned and never raw.          *)
C6_ResponsesPassFailuresRaiseMcpError ==
  (last.op = "complete" /\ Len(last.trace) >= 2)
    => /\ ~Failed(last.outcome) => last.result = last.outcome
       /\ \A i \in HookSteps :
            Failed(last.trace[i])
              => /\ Failed(last.trace[i + 1])
                 /\ last.trace[i + 1].value.name = "McpError"
                 /\ last.trace[i + 1].value.code \in {InvalidRequest, InternalError}

C6_Witness ==
  /\ last.op = "complete"
  /\ Len(last.trace) = 2
  /\ last.outcome = Rejected(TransportError("timeout of 30000ms exceeded", None, TRUE))
  /\ last.result.value.name = "McpError"

(* A step of the constructor that was given an existing client.              *)
ConstructedOverExisting ==
  /\ Len(tools') = Len(tools) + 1
  /\ tools'[Len(tools')].client \in DOMAIN clients

(* C7: constructing over an existing client leaves the base URL and the      *)
(* headers of the requests sent through every client as they were, whatever  *)
(* API key and options are passed.                                           *)
C7_ExistingClientConfigVerbatim ==
  [][ ConstructedOverExisting =>
        \A c \in DOMAIN clients, a \in IssuedAccepts :
          Dispatch(clients'[c], a).config = Dispatch(clients[c], a).config ]_vars

(* C7 as amended: constructing over an existing client leaves the base URL,  *)
(* the URL and every header other than Accept as they were, and Accept too   *)
(* when no non-empty acceptHeader is passed.                                 *)
C7_ExistingClientConfigButAccept ==
  [][ ConstructedOverExisting =>
        \A c \in DOMAIN clients, a \in IssuedAccepts :
          LET before == Dispatch(clients[c], a).config
              after  == Dispatch(clients'[c], a).config
          IN  /\ after.baseURL = before.baseURL
              /\ after.url = before.url
              /\ after.headers.XApiKey = before.headers.XApiKey
              /\ after.headers.ContentType = before.headers.ContentType
              /\ tools'[Len(tools')].acceptHeader = None
                   => after.headers.Accept = before.headers.Accept ]_vars

C7_Witness ==
  /\ last.op = "construct"
  /\ last.existingClient = 1
  /\ last.apiKey = None
  /\ ~last.threw
  /\ tools[Len(tools)] = [client |-> 1, acceptHeader |-> Some("text/plain")]
  /\ Dispatch(clients[1], None).config =
       [ url     |-> RequestUrl,
         baseURL |-> ExternalClient.baseURL,
         headers |-> [ExternalClient.headers EXCEPT !.Accept = Some("text/plain")] ]

(* C8: getToolMappings() returns a mapping whose keys are exactly the names  *)
(* getToolDefinitions() returned and whose every value is the instance;      *)
(* repeated names give one entry; without an override of                     *)
(* getToolDefinitions() it throws 'must be implemented by derived class'.    *)
C8_MappingsCoverDefinitions ==
  last.op = "getToolMappings"
    => IF last.class.overridden
       THEN /\ ~last.result.threw
            /\ DOMAIN last.result.value =
                 { last.class.returns[i].name : i \in DOMAIN last.class.returns }
            /\ \A n \in DOMAIN last.result.value : last.result.value[n] = last.tool
       ELSE /\ last.result.threw
            /\ last.result.value.message =
                 "getToolDefinitions() must be implemented by derived class"

C8_Witness ==
  /\ last.op = "getToolMappings"
  /\ last.class.overridden
  /\ Len(last.class.returns) = 2
  /\ last.class.returns[1] = last.class.returns[2]
  /\ Cardinality(DOMAIN last.result.value) = 1

(* C9: canHandleResource(uri) never throws; it returns true exactly when     *)
(* getToolResourceDetails(uri) succeeds and false when that fails with any   *)
(* error; with the default getToolResourceDetails, which fails with an       *)
(* invalid-request error naming uri, it returns false.                       *)
C9_CanHandleIsDetailsSucceeds ==
  last.op = "canHandleResource"
    => /\ ~last.result.threw
       /\ last.result.value = ~last.details.threw
       /\ ~last.class.overridden
            => /\ last.result.value = FALSE
               /\ last.details.threw
               /\ last.details.value.code = InvalidRequest
               /\ last.details.value.message =
                    "MCP error -32600: Resource " \o last.uri \o " cannot be handled by this tool"

C9_Witness ==
  /\ last.op = "canHandleResource"
  /\ last.class.overridden
  /\ last.details.threw
  /\ last.details.value.name = "Error"
  /\ last.result = Return(FALSE)

(* The instances constructed over client c.                                  *)
InstancesOf(c) == { t \in DOMAIN tools : tools[t].client = c }

LoggedOncePerInstance ==
  last.logged = [i \in 1..Cardinality(InstancesOf(last.client)) |-> RequestUrl]

(* C10: a request sent through the client of an instance constructed with a  *)
(* custom acceptHeader h leaves the request hooks with Accept = h, whatever  *)
(* Accept it was issued with and whatever other instances share the client,  *)
(* and every instance's logging hook has run.                                *)
C10_AcceptIsEveryInstancesHeader ==
  last.op = "send"
    => /\ \A t \in InstancesOf(last.client) :
            tools[t].acceptHeader # None => last.config.headers.Accept = tools[t].acceptHeader
       /\ LoggedOncePerInstance

(* C10 as amended: the same, for an instance before which no instance with   *)
(* a different acceptHeader was constructed over the same client.            *)
C10_AcceptIsFirstInstancesHeader ==
  last.op = "send"
    => /\ \A t \in InstancesOf(last.client) :
            ( /\ tools[t].acceptHeader # None
              /\ \A u \in InstancesOf(last.client) :
                   (u < t /\ tools[u].acceptHeader # None)
                     => tools[u].acceptHeader = tools[t].acceptHeader )
              => last.config.headers.Accept = tools[t].acceptHeader
       /\ LoggedOncePerInstance

C10_Witness ==
  /\ last.op = "send"
  /\ last.issuedAccept # None
  /\ Cardinality(InstancesOf(last.client)) = 2
  /\ \E t, u \in InstancesOf(last.client) :
       /\ t < u
       /\ tools[t].acceptHeader = Some("text/plain")
       /\ tools[u].acceptHeader = Some("application/vnd.api.v10+json")
  /\ last.config.headers.Accept = Some("text/plain")

====
